---- MODULE Spec2Model ----
(***************************************************************************)
(* A model of the threshold-cryptography engine of post_quant_pvss:        *)
(*   - pqppvss::sss           Shamir sharing and recovery                   *)
(*   - pqppvss::pedcom        Pedersen commitments and the SCRAPE test      *)
(*   - pqppvss::prot_pvss_*   the two PVSS variants                         *)
(*   - private_polling        PublicEvals low-degree test, NIZK proofs,     *)
(*                            interpolation, the vote builder and verifiers *)
(*   - ibe / ibe_encryption   the bit codecs of the IBE transport           *)
(*                                                                         *)
(* The scalar fields of the curves are scaled down to the prime field      *)
(* Z_FieldOrder.  The prime-order groups (BLS12-381 G1, Ristretto) are     *)
(* cyclic of that order and are modelled by the discrete logarithm of each *)
(* element with respect to the standard generator G, so G = 1, the         *)
(* identity is 0, point addition is addition mod FieldOrder and scalar     *)
(* multiplication is multiplication mod FieldOrder.                        *)
(***************************************************************************)
EXTENDS Integers, Sequences, FiniteSets, TLC

VARIABLES sss, pvss, ldt, pz, por, vote, interp, ped, runs, codec

vars == <<sss, pvss, ldt, pz, por, vote, interp, ped, runs, codec>>

(***************************************************************************)
(* Field and group arithmetic                                              *)
(***************************************************************************)

\* The order of the scalar field (and of the group), scaled down.
FieldOrder == 5

Field == 0..(FieldOrder - 1)

FAdd(a, b) == (a + b) % FieldOrder

FSub(a, b) == (a - b + FieldOrder) % FieldOrder

FMul(a, b) == (a * b) % FieldOrder

FNeg(a) == (FieldOrder - a) % FieldOrder

RECURSIVE FPow(_, _)
FPow(a, e) == IF e = 0 THEN 1 ELSE FMul(a, FPow(a, e - 1))

\* Inversion by Fermat's little theorem; the inverse of 0 is 0, as
\* curve25519-dalek's Scalar::invert computes it.
FInv(a) == FPow(a, FieldOrder - 2)

\* arkworks' a / b; callers model the panic on b = 0 separately.
FDiv(a, b) == FMul(a, FInv(b))

\* Horner evaluation of the polynomial with coefficient sequence coeffs
\* (coeffs[k] multiplies x^(k-1)); the empty sequence is the zero polynomial.
RECURSIVE Horner(_, _, _)
Horner(coeffs, x, k) ==
    IF k > Len(coeffs) THEN 0
    ELSE FAdd(coeffs[k], FMul(x, Horner(coeffs, x, k + 1)))

PolyEval(coeffs, x) == Horner(coeffs, x, 1)

\* sum_k as[k] * bs[k] over the common prefix of the two sequences (zip).
RECURSIVE InnerFrom(_, _, _)
InnerFrom(as, bs, k) ==
    IF k > Len(as) \/ k > Len(bs) THEN 0
    ELSE FAdd(FMul(as[k], bs[k]), InnerFrom(as, bs, k + 1))

InnerProduct(as, bs) == InnerFrom(as, bs, 1)

\* The subsequence of s at the indices in idx, in increasing index order.
RECURSIVE SubSeqAt(_, _, _)
SubSeqAt(s, idx, k) ==
    IF k > Len(s) THEN <<>>
    ELSE IF k \in idx THEN <<s[k]>> \o SubSeqAt(s, idx, k + 1)
    ELSE SubSeqAt(s, idx, k + 1)

Distinct(xs) == \A i, j \in 1..Len(xs) : i # j => xs[i] # xs[j]

Idle == [pc |-> "idle"]

(***************************************************************************)
(* pqppvss::sss -- Shamir secret sharing                                   *)
(***************************************************************************)

\* Bounds on the access structure (t, n) of the Shamir baseline.
SssMaxT == 3
SssMaxN == 3

\* The product over j # i of (x - x_j) / (x_i - x_j), with the sign of the
\* denominator flipped: a plausible slip in the Lagrange basis.
RECURSIVE LagrangeBasisFlipped(_, _, _, _)
LagrangeBasisFlipped(xs, x, i, j) ==
    IF j > Len(xs) THEN 1
    ELSE IF j = i THEN LagrangeBasisFlipped(xs, x, i, j + 1)
    ELSE FMul(FDiv(FSub(x, xs[j]), FSub(xs[j], xs[i])),
              LagrangeBasisFlipped(xs, x, i, j + 1))

lagrange_coefficients_flipped(xs, x) ==
    [i \in 1..Len(xs) |-> LagrangeBasisFlipped(xs, x, i, 1)]

\* l_i = product over j # i of (x - x_j) / (x_i - x_j).
RECURSIVE LagrangeBasis(_, _, _, _)
LagrangeBasis(xs, x, i, j) ==
    IF j > Len(xs) THEN 1
    ELSE IF j = i THEN LagrangeBasis(xs, x, i, j + 1)
    ELSE FMul(FDiv(FSub(x, xs[j]), FSub(xs[i], xs[j])),
              LagrangeBasis(xs, x, i, j + 1))

lagrange_coefficients(xs, x) ==
    [i \in 1..Len(xs) |-> LagrangeBasis(xs, x, i, 1)]

\* recover divides by x_i - x_j for every i # j: two equal x-coordinates make
\* the field division panic.
RecoverPanics(shares) == ~Distinct([k \in 1..Len(shares) |-> shares[k][1]])

\* The value recover returns when it does not panic.
sss_recover(shares) ==
    LET xs == [k \in 1..Len(shares) |-> shares[k][1]]
        ys == [k \in 1..Len(shares) |-> shares[k][2]]
    IN  InnerProduct(ys, lagrange_coefficients(xs, 0))

\* share with one coefficient fewer: a polynomial of degree t - 2.
sss_share_degree_short(secret, t, n, rnd, xs) ==
    LET coeffs == [i \in 1..(t - 1) |-> IF i = 1 THEN secret ELSE rnd[i - 1]]
    IN  [k \in 1..n |-> <<xs[k], PolyEval(coeffs, xs[k])>>]

\* The shares sss::share returns for the random coefficients rnd and the
\* random x-coordinates xs.
sss_share(secret, t, n, rnd, xs) ==
    LET coeffs == [i \in 1..t |-> IF i = 1 THEN secret ELSE rnd[i - 1]]
    IN  [k \in 1..n |-> <<xs[k], PolyEval(coeffs, xs[k])>>]

SssInit ==
    /\ sss \in [pc : {"init"}, secret : Field, t : 0..SssMaxT, n : 1..SssMaxN,
                shares : {<<>>}, passed : {<<>>}, recovered : {0}]
    /\ pvss = Idle /\ ldt = Idle /\ pz = Idle /\ por = Idle
    /\ vote = Idle /\ interp = Idle /\ ped = Idle /\ runs = Idle /\ codec = Idle

SssShare ==
    /\ sss.pc = "init"
    /\ \E rnd \in [1..(sss.t - 1) -> Field], xs \in [1..sss.n -> Field] :
         sss' = [sss EXCEPT !.pc = "shared",
                            !.shares = sss_share(sss.secret, sss.t, sss.n, rnd, xs)]
    /\ UNCHANGED <<pvss, ldt, pz, por, vote, interp, ped, runs, codec>>

\* The caller hands recover a subset of the shares (recover takes the vector
\* by value); recover returns f(0) or panics on a zero denominator.
SssRecover ==
    /\ sss.pc = "shared"
    /\ \E idx \in SUBSET (1..sss.n) :
         LET passed == SubSeqAt(sss.shares, idx, 1)
         IN  sss' = [sss EXCEPT
                       !.pc = IF RecoverPanics(passed) THEN "panic" ELSE "recovered",
                       !.shares = <<>>,
                       !.passed = passed,
                       !.recovered = IF RecoverPanics(passed) THEN 0
                                     ELSE sss_recover(passed)]
    /\ UNCHANGED <<pvss, ldt, pz, por, vote, interp, ped, runs, codec>>

SssNext == SssShare \/ SssRecover

SpecSSS == SssInit /\ [][SssNext]_vars

\* C1: sharing a secret with 2 <= t <= n and recovering from at least t of
\* the shares with pairwise distinct x-coordinates returns the secret.
C1_ShareRecoverRoundTrip ==
    (sss.pc \in {"recovered", "panic"} /\ 2 <= sss.t /\ sss.t <= sss.n
        /\ Len(sss.passed) >= sss.t
        /\ Distinct([k \in 1..Len(sss.passed) |-> sss.passed[k][1]]))
    => (sss.pc = "recovered" /\ sss.recovered = sss.secret)

\* Recovery from three distinct shares of a degree-2 polynomial with a
\* non-zero secret.
C1_Witness ==
    /\ sss.pc = "recovered" /\ sss.t = 3 /\ sss.n = 3 /\ Len(sss.passed) = 3
    /\ Distinct([k \in 1..Len(sss.passed) |-> sss.passed[k][1]])
    /\ sss.passed[1][2] # sss.passed[2][2]
    /\ sss.secret = 3 /\ sss.recovered = 3


(***************************************************************************)
(* pqppvss::pedcom -- Pedersen commitments and the SCRAPE degree check      *)
(***************************************************************************)

\* commit with the multiplication by r applied to the sum: (m*G + H)*r.
pedcom_commit_misgrouped(h, m, r) == FMul(FAdd(FMul(1, m), h), r)

\* commit(m, r) = m*G + r*H, where h is the discrete logarithm of H.
pedcom_commit(h, m, r) == FAdd(FMul(1, m), FMul(h, r))

\* lambda_i with the product taken over j in 1..n-1 only: an off-by-one in
\* the range of the fold.
RECURSIVE ScrapeProdShort(_, _, _)
ScrapeProdShort(n, i, j) ==
    IF j > n - 1 THEN 1
    ELSE IF j = i THEN ScrapeProdShort(n, i, j + 1)
    ELSE FMul(FDiv(1, FSub(i % FieldOrder, j % FieldOrder)),
              ScrapeProdShort(n, i, j + 1))

compute_scrape_coefficient_short(n, i) == ScrapeProdShort(n, i, 1)

\* lambda_i = product over j in 1..n, j # i, of 1 / (i - j).
RECURSIVE ScrapeProd(_, _, _)
ScrapeProd(n, i, j) ==
    IF j > n THEN 1
    ELSE IF j = i THEN ScrapeProd(n, i, j + 1)
    ELSE FMul(FDiv(1, FSub(i % FieldOrder, j % FieldOrder)),
              ScrapeProd(n, i, j + 1))

compute_scrape_coefficient(n, i) == ScrapeProd(n, i, 1)

\* degree_check returns before sampling z when n < degree + 2.
DegreeCheckShortCircuits(n, degree) == n < degree + 2

\* The number of coefficients of the check polynomial z: 0..=(n - d - 2).
DegreeCheckZLen(n, degree) == n - degree - 1

\* sum_i v_i * (z(i) * lambda_i) over i in 1..n.
RECURSIVE ScrapeSum(_, _, _, _)
ScrapeSum(commitments, z, n, i) ==
    IF i > n THEN 0
    ELSE FAdd(FMul(commitments[i],
                   FMul(PolyEval(z, i % FieldOrder), compute_scrape_coefficient(n, i))),
              ScrapeSum(commitments, z, n, i + 1))

\* degree_check(commitments, degree) for the sampled check polynomial z.
degree_check(commitments, degree, z) ==
    IF DegreeCheckShortCircuits(Len(commitments), degree) THEN TRUE
    ELSE ScrapeSum(commitments, z, Len(commitments), 1) = 0

(***************************************************************************)
(* private_polling::crypto -- Polynomial and the PublicEvals test           *)
(***************************************************************************)

\* Polynomial::remove_zeros: drop the trailing zero coefficients.
RECURSIVE remove_zeros(_)
remove_zeros(coefficients) ==
    IF Len(coefficients) = 0 THEN coefficients
    ELSE IF coefficients[Len(coefficients)] = 0
         THEN remove_zeros(SubSeq(coefficients, 1, Len(coefficients) - 1))
    ELSE coefficients

\* Polynomial::random: the sampled coefficients, made canonical by From.
polynomial_random(rnd) == remove_zeros(rnd)

\* Polynomial::evaluate_at.
evaluate_at(coefficients, x) == PolyEval(coefficients, x)

\* denominators[i] = product over j in 0..n-1, j # i, of (i - j); the model's
\* sequences are 1-based, so entry k is the denominator of the point k - 1.
RECURSIVE DenomProd(_, _, _)
DenomProd(n, i, j) ==
    IF j > n - 1 THEN 1
    ELSE IF j = i THEN DenomProd(n, i, j + 1)
    ELSE FMul(FSub(i % FieldOrder, j % FieldOrder), DenomProd(n, i, j + 1))

all_lagrange_denominators(n) == [k \in 1..n |-> DenomProd(n, k - 1, 0)]

\* The number of coefficients get_dual_codeword samples: dual_degree + 1.
DualCodewordLen(degree, n) == (n - degree - 2) + 1

\* get_dual_codeword(degree, n) for the sampled coefficients rnd.
get_dual_codeword(degree, n, rnd) ==
    LET f_poly == polynomial_random(rnd)
        denominators == all_lagrange_denominators(n)
    IN  [k \in 1..n |->
            FMul(evaluate_at(f_poly, (k - 1) % FieldOrder), FInv(denominators[k]))]

\* get_dual_codeword computes n - degree - 2 in usize: below zero the
\* subtraction overflows, and the call aborts (on the overflow check, or on
\* the allocation of the wrapped number of coefficients).
GetDualCodewordUnderflows(degree, n) == n < degree + 2

\* perform_low_degree_test aborts: evals[1..] of an empty vector, t - 1 for
\* t = 0, or the underflow in get_dual_codeword.
PerformLowDegreeTestPanics(evals, n, t) ==
    \/ Len(evals) = 0
    \/ t # n /\ (t = 0 \/ GetDualCodewordUnderflows(t - 1, n))

\* perform_low_degree_test(n, t) on self.evals for the sampled coefficients
\* rnd; evals[1] is the entry at index 0 of the code's vector.
perform_low_degree_test(evals, n, t, rnd) ==
    IF t = n THEN TRUE
    ELSE LET vf == get_dual_codeword(t - 1, n, rnd)
         IN  IF Len(evals) - 1 # Len(vf) THEN FALSE
             ELSE InnerProduct(vf, Tail(evals)) = 0

\* perform_low_degree_test_with_precomputation(n, t, dual_codeword) on
\* self.evals: the dual codeword is the caller's, nothing is sampled.
perform_low_degree_test_with_precomputation(evals, n, t, dual_codeword) ==
    IF t = n THEN TRUE
    ELSE IF Len(evals) - 1 # Len(dual_codeword) THEN FALSE
    ELSE InnerProduct(dual_codeword, Tail(evals)) = 0

(***************************************************************************)
(* The low-degree tests run on the evaluations of a polynomial             *)
(***************************************************************************)

\* Bound on the number n of parties of a low-degree test.
LdtMaxN == 4

\* Evaluations of poly at 1..n, in the exponent: the commitment vector that
\* degree_check receives.
CommitmentsOf(poly, n) == [i \in 1..n |-> PolyEval(poly, i % FieldOrder)]

\* PublicEvals.evals: the evaluation at 0 followed by those at 1..n.
PublicEvalsOf(poly, n) == [k \in 1..(n + 1) |-> PolyEval(poly, (k - 1) % FieldOrder)]

\* The n per-party values a test is run on.
LdtValues == IF ldt.impl = "pedcom" THEN ldt.evals ELSE Tail(ldt.evals)

\* The number of coefficients of the check polynomial the test samples
\* (0 when the test returns before sampling).
LdtZLen(impl, n, t) ==
    IF impl = "pedcom"
    THEN (IF DegreeCheckShortCircuits(n, t) THEN 0 ELSE DegreeCheckZLen(n, t))
    ELSE (IF t = n \/ GetDualCodewordUnderflows(t - 1, n) THEN 0
          ELSE DualCodewordLen(t - 1, n))

\* The verdict of the test of implementation impl for the sampled rnd.
LdtRun(impl, evals, n, t, rnd) ==
    IF impl = "pedcom" THEN degree_check(evals, t, rnd)
    ELSE perform_low_degree_test(evals, n, t, rnd)

LdtInit ==
    /\ \E impl \in {"pedcom", "public_evals"}, n \in 1..LdtMaxN :
         \E t \in 1..(n + 1) :
           \E poly \in [1..(IF t < n THEN t + 1 ELSE n + 1) -> Field] :
             ldt = [pc |-> "init", impl |-> impl, n |-> n, t |-> t,
                    evals |-> IF impl = "pedcom" THEN CommitmentsOf(poly, n)
                              ELSE PublicEvalsOf(poly, n),
                    z |-> <<>>, result |-> FALSE, panicked |-> FALSE]
    /\ sss = Idle /\ pvss = Idle /\ pz = Idle /\ por = Idle
    /\ vote = Idle /\ interp = Idle /\ ped = Idle /\ runs = Idle /\ codec = Idle

\* One invocation of the test: sample the check polynomial and decide.
LdtTest ==
    /\ ldt.pc = "init"
    /\ IF ldt.impl = "public_evals"
          /\ PerformLowDegreeTestPanics(ldt.evals, ldt.n, ldt.t)
       THEN ldt' = [ldt EXCEPT !.pc = "done", !.panicked = TRUE]
       ELSE \E rnd \in [1..LdtZLen(ldt.impl, ldt.n, ldt.t) -> Field] :
              ldt' = [ldt EXCEPT
                        !.pc = "done", !.z = rnd,
                        !.result = LdtRun(ldt.impl, ldt.evals, ldt.n, ldt.t, rnd)]
    /\ UNCHANGED <<sss, pvss, pz, por, vote, interp, ped, runs, codec>>

LdtNext == LdtTest

SpecLDT == LdtInit /\ [][LdtNext]_vars

\* Bound on n for the tests run on evaluation vectors of any length.
LenMaxN == 2

\* A PublicEvals whose evals vector has any length from 0 to n + 2, tested
\* with 1 <= t <= n.
LdtLenInit ==
    /\ \E n \in 1..LenMaxN :
         \E t \in 1..n, len \in 0..(n + 2) :
           \E evals \in [1..len -> {0, 1}] :
             ldt = [pc |-> "init", impl |-> "public_evals", n |-> n, t |-> t,
                    evals |-> evals, z |-> <<>>, result |-> FALSE,
                    panicked |-> FALSE]
    /\ sss = Idle /\ pvss = Idle /\ pz = Idle /\ por = Idle
    /\ vote = Idle /\ interp = Idle /\ ped = Idle /\ runs = Idle /\ codec = Idle

\* One invocation of perform_low_degree_test_with_precomputation with a dual
\* codeword of the caller, of any length up to n + 1: evals[1..] panics on an
\* empty vector.
LdtTestWithPrecomputation ==
    /\ ldt.pc = "init"
    /\ \E dlen \in 0..(ldt.n + 1) :
         \E dual_codeword \in [1..dlen -> {0, 1}] :
           IF Len(ldt.evals) = 0
           THEN ldt' = [ldt EXCEPT !.pc = "done_precomputation",
                                    !.z = dual_codeword, !.panicked = TRUE]
           ELSE ldt' = [ldt EXCEPT
                          !.pc = "done_precomputation", !.z = dual_codeword,
                          !.result = perform_low_degree_test_with_precomputation(
                                         ldt.evals, ldt.n, ldt.t, dual_codeword)]
    /\ UNCHANGED <<sss, pvss, pz, por, vote, interp, ped, runs, codec>>

LdtLenNext == LdtTest \/ LdtTestWithPrecomputation

SpecLdtLen == LdtLenInit /\ [][LdtLenNext]_vars

\* C29: perform_low_degree_test(n, t) and
\* perform_low_degree_test_with_precomputation(n, t, dual) return false
\* whenever the number of per-party evaluations, evals.len() - 1, differs from
\* n or from the dual codeword's length, for every 1 <= t <= n, t = n
\* included, and they do not abort when evals is empty.
C29_LengthMismatchReturnsFalse ==
    /\ ldt.pc = "done"
       => /\ ~ldt.panicked
          /\ Len(ldt.evals) - 1 # ldt.n => ldt.result = FALSE
    /\ ldt.pc = "done_precomputation"
       => /\ ~ldt.panicked
          /\ (Len(ldt.evals) - 1 # ldt.n \/ Len(ldt.evals) - 1 # Len(ldt.z))
             => ldt.result = FALSE

\* The part of C29 for t < n on a non-empty evals vector.
C29_BelowNPart ==
    (ldt.t < ldt.n /\ Len(ldt.evals) > 0)
    => /\ ldt.pc = "done"
          => /\ ~ldt.panicked
             /\ Len(ldt.evals) - 1 # ldt.n => ldt.result = FALSE
       /\ ldt.pc = "done_precomputation"
          => /\ ~ldt.panicked
             /\ Len(ldt.evals) - 1 # Len(ldt.z) => ldt.result = FALSE

\* The values lie on a polynomial with at most k coefficients (degree < k).
OnPolynomialOfDegreeBelow(values, k) ==
    \E q \in [1..k -> Field] :
        \A i \in 1..Len(values) : PolyEval(q, i % FieldOrder) = values[i]

\* C5: evaluations at 1..n of a polynomial of degree <= t-1, with n >= t+2,
\* pass the low-degree test for threshold t whatever check polynomial is drawn.
C5_LowDegreeTestComplete ==
    (ldt.pc = "done" /\ ldt.n >= ldt.t + 2
        /\ OnPolynomialOfDegreeBelow(LdtValues, ldt.t))
    => ldt.result = TRUE

\* A real run of each test (no short circuit, a non-zero check polynomial) on
\* non-constant evaluations of a polynomial of degree t-1.
C5_WitnessPedcom ==
    /\ ldt.pc = "done" /\ ldt.impl = "pedcom" /\ ldt.t = 2 /\ ldt.n = 4
    /\ OnPolynomialOfDegreeBelow(LdtValues, 2)
    /\ ~OnPolynomialOfDegreeBelow(LdtValues, 1)
    /\ ldt.z = <<1>> /\ ldt.result = TRUE

C5_WitnessPublicEvals ==
    /\ ldt.pc = "done" /\ ldt.impl = "public_evals" /\ ldt.t = 2 /\ ldt.n = 4
    /\ OnPolynomialOfDegreeBelow(LdtValues, 2)
    /\ ~OnPolynomialOfDegreeBelow(LdtValues, 1)
    /\ ldt.z = <<1, 2>> /\ ldt.result = TRUE

\* The check polynomials an invocation may draw, and how many of them make
\* the test accept the values of the current state.
LdtZSpace == [1..LdtZLen(ldt.impl, ldt.n, ldt.t) -> Field]

LdtAcceptCount ==
    Cardinality({rnd \in LdtZSpace :
                    LdtRun(ldt.impl, ldt.evals, ldt.n, ldt.t, rnd)})

\* C6: values that lie on no polynomial of degree < t are rejected by the
\* test for threshold t for all but a (deg(z)+1)/|field| fraction of the
\* check polynomials z (deg(z)+1 is the number of sampled coefficients).
C6_LowDegreeTestSound ==
    (ldt.pc = "done" /\ ldt.n >= ldt.t + 2
        /\ ~OnPolynomialOfDegreeBelow(LdtValues, ldt.t))
    => LdtAcceptCount * FieldOrder
         <= LdtZLen(ldt.impl, ldt.n, ldt.t) * Cardinality(LdtZSpace)

\* The same bound restricted to PublicEvals::perform_low_degree_test.
C6_PublicEvalsPart ==
    ldt.impl = "public_evals" => C6_LowDegreeTestSound

\* C16: whenever n < t+2 the low-degree test for threshold t returns true
\* without sampling a check polynomial or computing the weighted sum, for any
\* input values, in both implementations.
C16_ShortCircuitBelowTPlusTwo ==
    (ldt.pc = "done" /\ ldt.n < ldt.t + 2)
    => (~ldt.panicked /\ ldt.result = TRUE /\ ldt.z = <<>>)

\* The part of C16 about pedcom::degree_check.
C16_PedcomPart ==
    ldt.impl = "pedcom" => C16_ShortCircuitBelowTPlusTwo


(***************************************************************************)
(* pqppvss::utils and the two PVSS variants                                 *)
(***************************************************************************)

\* Bounds on the access structure (t, n) of a PVSS sharing and on the values
\* F::rand draws for the polynomial coefficients (0..PvssMaxRand).
PvssMaxT == 1
PvssMaxN == 2
PvssMaxRand == 1

RandVals == 0..PvssMaxRand

\* A 32-byte block is modelled by the integer it encodes; the values from
\* FieldOrder on are the encodings that are not canonical field elements.
BlockValues == 0..FieldOrder

\* F::from_bigint(..).unwrap() and deserialize_compressed(..).unwrap() panic
\* on a value that is not below the modulus.
NotCanonical(block) == block >= FieldOrder

\* sample_poly(secret, degree, rng): rnd are the degree + 1 sampled
\* coefficients; with Some(secret), coefficient 0 is overwritten by it.
sample_poly(is_some, secret, rnd) ==
    IF is_some THEN [rnd EXCEPT ![1] = secret] ELSE rnd

\* poly_eval_mult_c: c * f(x), coefficient by coefficient.
poly_eval_mult_c(f, c) ==
    IF Len(f) = 0 THEN f ELSE [k \in 1..Len(f) |-> FMul(f[k], c)]

\* DensePolynomial subtraction: coefficient-wise, then the leading zero
\* coefficients are truncated.
DensePolySub(a, b) ==
    LET len == IF Len(a) >= Len(b) THEN Len(a) ELSE Len(b)
        at(p, k) == IF k <= Len(p) THEN p[k] ELSE 0
    IN  remove_zeros([k \in 1..len |-> FSub(at(a, k), at(b, k))])

\* digest_sha256 of a list of byte strings, taken as collision-free: the
\* digest is modelled by the hashed list itself.
digest_sha256(data) == data

\* The fixed public challenge of Variant A.
ChalConst == 42

Chal == ChalConst % FieldOrder

\* ibe_encrypt: the ciphertext for party i (0-based) carrying the 96-byte
\* message msg (three 32-byte blocks); ibe_decrypt with party i's extracted
\* key returns the message.
ibe_encrypt(msg, i) == [owner |-> i, msg |-> msg]

ibe_decrypt(cipher) == cipher.msg

\* Variant B (prot_pvss_pedcom_ibe::share) from the two sampled polynomials.
pedcom_share(h, secret_poly, random_poly, n) ==
    [commitments |->
        [k \in 1..n |-> pedcom_commit(h, PolyEval(secret_poly, k % FieldOrder),
                                         PolyEval(random_poly, k % FieldOrder))],
     ciphertexts |->
        [k \in 1..n |-> ibe_encrypt(<<PolyEval(secret_poly, k % FieldOrder),
                                      PolyEval(random_poly, k % FieldOrder), 0>>,
                                    k - 1)]]

\* Variant A (prot_pvss_hash_ibe::share) from the four sampled polynomials.
hash_share(s_poly, r_poly, b_poly, q_poly, n) ==
    [committed_secret |-> DensePolySub(b_poly, poly_eval_mult_c(s_poly, Chal)),
     csh |-> [k \in 1..n |-> digest_sha256(<<PolyEval(s_poly, k % FieldOrder),
                                            PolyEval(r_poly, k % FieldOrder)>>)],
     cpt |-> [k \in 1..n |-> digest_sha256(<<PolyEval(b_poly, k % FieldOrder),
                                            PolyEval(q_poly, k % FieldOrder)>>)],
     ciphertexts |->
        [k \in 1..n |-> ibe_encrypt(<<PolyEval(s_poly, k % FieldOrder),
                                      PolyEval(r_poly, k % FieldOrder),
                                      PolyEval(q_poly, k % FieldOrder)>>,
                                    k - 1)]]

\* prot_pvss_pedcom_ibe::verify for the check polynomial z drawn by
\* degree_check: "ok" when it returns, "panic" when an assert or unwrap fails.
pedcom_verify(h, sharing, t, index, z) ==
    IF ~degree_check(sharing.commitments, t, z) THEN "panic"
    ELSE IF index >= Len(sharing.ciphertexts) THEN "panic"
    ELSE LET msg == ibe_decrypt(sharing.ciphertexts[index + 1])
         IN  IF NotCanonical(msg[1]) \/ NotCanonical(msg[2]) THEN "panic"
             ELSE IF sharing.commitments[index + 1] = pedcom_commit(h, msg[1], msg[2])
                  THEN "ok" ELSE "panic"

\* prot_pvss_hash_ibe::verify.
hash_verify(sharing, t, index) ==
    IF Len(sharing.committed_secret) # t + 1 THEN "panic"
    ELSE IF index >= Len(sharing.ciphertexts) THEN "panic"
    ELSE LET msg == ibe_decrypt(sharing.ciphertexts[index + 1])
         IN  IF NotCanonical(msg[1]) \/ NotCanonical(msg[2]) \/ NotCanonical(msg[3])
             THEN "panic"
             ELSE LET lhs == FAdd(PolyEval(sharing.committed_secret,
                                           (index + 1) % FieldOrder),
                                  FMul(Chal, msg[1]))
                  IN  IF sharing.csh[index + 1] # digest_sha256(<<msg[1], msg[2]>>)
                      THEN "panic"
                      ELSE IF sharing.cpt[index + 1] # digest_sha256(<<lhs, msg[3]>>)
                      THEN "panic"
                      ELSE "ok"

PvssInit ==
    /\ \E variant \in {"hash", "pedcom"}, t \in 0..PvssMaxT, n \in 1..PvssMaxN,
          nkeys \in 1..PvssMaxN, secret \in BlockValues :
         \E h \in (IF variant = "pedcom" THEN 1..(FieldOrder - 1) ELSE {0}) :
           pvss = [pc |-> "init", variant |-> variant, h |-> h, t |-> t, n |-> n,
                   nkeys |-> nkeys, secret |-> secret, polys |-> <<>>,
                   sharing |-> <<>>, corrupted |-> -1, index |-> -1,
                   result |-> "none"]
    /\ sss = Idle /\ ldt = Idle /\ pz = Idle /\ por = Idle
    /\ vote = Idle /\ interp = Idle /\ ped = Idle /\ runs = Idle /\ codec = Idle

\* share without the assert on the number of public keys.
SharePanicsOnSecretOnly == NotCanonical(pvss.secret)

\* share panics when n differs from the number of public keys and when the
\* secret's integer value is not below the modulus.
SharePanics == pvss.n # pvss.nkeys \/ NotCanonical(pvss.secret)

PvssSharePedcom ==
    /\ pvss.pc = "init" /\ pvss.variant = "pedcom"
    /\ IF SharePanics
       THEN pvss' = [pvss EXCEPT !.pc = "panic"]
       ELSE \E rs, rr \in [1..(pvss.t + 1) -> RandVals] :
              LET secret_poly == sample_poly(TRUE, pvss.secret, rs)
                  random_poly == sample_poly(FALSE, 0, rr)
              IN  pvss' = [pvss EXCEPT
                             !.pc = "shared",
                             !.polys = <<secret_poly, random_poly>>,
                             !.sharing = pedcom_share(pvss.h, secret_poly,
                                                      random_poly, pvss.n)]
    /\ UNCHANGED <<sss, ldt, pz, por, vote, interp, ped, runs, codec>>

PvssShareHash ==
    /\ pvss.pc = "init" /\ pvss.variant = "hash"
    /\ IF SharePanics
       THEN pvss' = [pvss EXCEPT !.pc = "panic"]
       ELSE \E rs, rr, rb, rq \in [1..(pvss.t + 1) -> RandVals] :
              LET s_poly == sample_poly(TRUE, pvss.secret, rs)
                  r_poly == sample_poly(FALSE, 0, rr)
                  b_poly == sample_poly(FALSE, 0, rb)
                  q_poly == sample_poly(FALSE, 0, rq)
              IN  pvss' = [pvss EXCEPT
                             !.pc = "shared",
                             !.polys = <<s_poly, r_poly, b_poly, q_poly>>,
                             !.sharing = hash_share(s_poly, r_poly, b_poly,
                                                    q_poly, pvss.n)]
    /\ UNCHANGED <<sss, ldt, pz, por, vote, interp, ped, runs, codec>>

\* The single entry ciphertexts[i] is replaced by a ciphertext that decrypts,
\* under party i's key, to a message differing in one 32-byte block.
PvssCorrupt ==
    /\ pvss.pc = "shared" /\ pvss.corrupted = -1
    /\ \E i \in 0..(pvss.n - 1), k \in 1..3, v \in BlockValues :
         LET old == pvss.sharing.ciphertexts[i + 1]
         IN  /\ v # old.msg[k]
             /\ pvss' = [pvss EXCEPT
                           !.corrupted = i,
                           !.sharing.ciphertexts[i + 1] =
                               ibe_encrypt([old.msg EXCEPT ![k] = v], i)]
    /\ UNCHANGED <<sss, ldt, pz, por, vote, interp, ped, runs, codec>>

\* verify at a 0-based index with the secret key of that party.
PvssVerify ==
    /\ pvss.pc = "shared"
    /\ \E index \in 0..pvss.n :
         IF pvss.variant = "hash"
         THEN pvss' = [pvss EXCEPT !.pc = "verified", !.index = index,
                          !.result = hash_verify(pvss.sharing, pvss.t, index)]
         ELSE \E z \in [1..(IF DegreeCheckShortCircuits(pvss.n, pvss.t) THEN 0
                            ELSE DegreeCheckZLen(pvss.n, pvss.t)) -> Field] :
                pvss' = [pvss EXCEPT !.pc = "verified", !.index = index,
                           !.result = pedcom_verify(pvss.h, pvss.sharing, pvss.t,
                                                    index, z)]
    /\ UNCHANGED <<sss, ldt, pz, por, vote, interp, ped, runs, codec>>

PvssNext == PvssSharePedcom \/ PvssShareHash \/ PvssCorrupt \/ PvssVerify

SpecPVSS == PvssInit /\ [][PvssNext]_vars

\* The secret that the evaluations decrypted by the parties in idx (1-based
\* party numbers, evaluation points) determine by interpolation at 0.
InterpolatedSecret(idx) ==
    sss_recover(SubSeqAt([k \in 1..pvss.n |->
                            <<k % FieldOrder,
                              ibe_decrypt(pvss.sharing.ciphertexts[k])[1]>>],
                         idx, 1))

\* C2: share with access (t, n) samples polynomials with exactly t
\* coefficients (degree t-1), the secret polynomial having the secret as
\* coefficient 0, so the decrypted evaluations of any t parties interpolate
\* to the secret at 0.
C2_SharePolynomialsHaveDegreeTMinusOne ==
    (pvss.pc = "shared" /\ pvss.corrupted = -1
        /\ 1 <= pvss.t /\ pvss.t <= pvss.n)
    => /\ \A k \in 1..Len(pvss.polys) : Len(pvss.polys[k]) = pvss.t
       /\ pvss.polys[1][1] = pvss.secret
       /\ \A idx \in SUBSET (1..pvss.n) :
            Cardinality(idx) = pvss.t => InterpolatedSecret(idx) = pvss.secret

\* C3: an honest Sharing (1 <= t <= n) is accepted by verify at every index
\* 0..n-1 with that party's key, whatever was sampled.
C3_HonestSharingVerifies ==
    (pvss.pc = "verified" /\ pvss.corrupted = -1
        /\ 1 <= pvss.t /\ pvss.t <= pvss.n /\ pvss.index < pvss.n)
    => pvss.result = "ok"

\* C4: after ciphertexts[i] of a Sharing produced by share is corrupted,
\* verify fails at index i and still accepts at every other index.
C4_CorruptionIsLocal ==
    (pvss.pc = "verified" /\ pvss.corrupted # -1
        /\ 1 <= pvss.t /\ pvss.t <= pvss.n /\ pvss.index < pvss.n)
    => (pvss.result = "ok" <=> pvss.index # pvss.corrupted)


\* The share operations of the two variants alone.
PvssShareNext == PvssSharePedcom \/ PvssShareHash

\* The secrets share is called with when only share is run: two canonical
\* values and one that is not below the modulus.
ShareSecrets == {0, 3, FieldOrder}

PvssShareInit ==
    /\ \E variant \in {"hash", "pedcom"}, t \in 0..PvssMaxT, n \in 1..PvssMaxN,
          nkeys \in 1..PvssMaxN, secret \in ShareSecrets :
         \E h \in (IF variant = "pedcom" THEN 1..(FieldOrder - 1) ELSE {0}) :
           pvss = [pc |-> "init", variant |-> variant, h |-> h, t |-> t, n |-> n,
                   nkeys |-> nkeys, secret |-> secret, polys |-> <<>>,
                   sharing |-> <<>>, corrupted |-> -1, index |-> -1,
                   result |-> "none"]
    /\ sss = Idle /\ ldt = Idle /\ pz = Idle /\ por = Idle
    /\ vote = Idle /\ interp = Idle /\ ped = Idle /\ runs = Idle /\ codec = Idle

SpecShare == PvssShareInit /\ [][PvssShareNext]_vars

\* C21: every Sharing returned by share has exactly n ciphertexts and n
\* commitments (Variant B) or n csh and n cpt digests (Variant A), n being the
\* number of recipient public keys; share called with n different from the
\* number of public keys returns no Sharing.
C21_SharingHasNEntries ==
    /\ pvss.pc = "shared"
       => /\ pvss.n = pvss.nkeys
          /\ Len(pvss.sharing.ciphertexts) = pvss.nkeys
          /\ pvss.variant = "pedcom"
             => Len(pvss.sharing.commitments) = pvss.nkeys
          /\ pvss.variant = "hash"
             => /\ Len(pvss.sharing.csh) = pvss.nkeys
                /\ Len(pvss.sharing.cpt) = pvss.nkeys
    /\ (pvss.pc # "init" /\ pvss.n # pvss.nkeys)
       => (pvss.pc = "panic" /\ pvss.sharing = <<>>)

C21_WitnessShared ==
    /\ pvss.pc = "shared" /\ pvss.variant = "hash" /\ pvss.n = 2 /\ pvss.t = 1
    /\ Len(pvss.sharing.csh) = 2 /\ Len(pvss.sharing.cpt) = 2
    /\ Len(pvss.sharing.ciphertexts) = 2

C21_WitnessKeyCountMismatch ==
    /\ pvss.pc = "panic" /\ pvss.n = 2 /\ pvss.nkeys = 1
    /\ pvss.secret = 3 /\ pvss.sharing = <<>>

\* Bounds on the access structure for the secrecy statement, which compares
\* every sharing with the sharings of every other secret.
SecrecyMaxT == 3
SecrecyMaxN == 2

SssSecrecyInit ==
    /\ sss \in [pc : {"init"}, secret : Field, t : 0..SecrecyMaxT,
                n : 1..SecrecyMaxN, shares : {<<>>}, passed : {<<>>},
                recovered : {0}]
    /\ pvss = Idle /\ ldt = Idle /\ pz = Idle /\ por = Idle
    /\ vote = Idle /\ interp = Idle /\ ped = Idle /\ runs = Idle /\ codec = Idle

SpecSecrecy == SssSecrecyInit /\ [][SssNext]_vars

\* The sets of t - 1 of the n shares whose x-coordinates are pairwise distinct
\* and non-zero.
SssCoalitions ==
    {idx \in SUBSET (1..sss.n) :
        /\ Cardinality(idx) = sss.t - 1
        /\ \A k \in idx : sss.shares[k][1] # 0
        /\ \A k, l \in idx : k # l => sss.shares[k][1] # sss.shares[l][1]}

\* C24: fewer than t shares reveal nothing about the secret: for any t - 1
\* shares output by sss::share with threshold t (pairwise-distinct non-zero
\* x), every field element s2 is consistent with them as the secret: share
\* called with s2 has a choice of its random coefficients (a polynomial of
\* degree <= t - 1 with constant term s2) that outputs the same t - 1 shares.
C24_FewerThanTSharesRevealNothing ==
    (sss.pc = "shared" /\ sss.t >= 1)
        => \A idx \in SssCoalitions : \A s2 \in Field :
             \E rnd \in [1..(sss.t - 1) -> Field] :
                LET xs == [k \in 1..sss.n |-> sss.shares[k][1]]
                    other == sss_share(s2, sss.t, sss.n, rnd, xs)
                IN  \A k \in idx : other[k] = sss.shares[k]

\* recover on t - 1 shares returned something else than the secret.
C24_WitnessRecoverMisses ==
    /\ sss.pc = "recovered" /\ sss.t = 3 /\ Len(sss.passed) = 2
    /\ sss.passed[1][1] # 0 /\ sss.passed[2][1] # 0
    /\ sss.passed[1][1] # sss.passed[2][1]
    /\ sss.recovered # sss.secret

\* A sharing with threshold 3 that has a coalition of 2 shares.
C24_WitnessCoalition ==
    /\ sss.pc = "shared" /\ sss.t = 3 /\ sss.n = 2 /\ sss.secret = 4
    /\ SssCoalitions # {}

\* C22: the construction functions validate the access structure before any
\* sampling, commitment or encryption: called with t = 0 or t > n they produce
\* no shares, commitments or ciphertexts.  Stated of sss::share.
C22_ConstructionValidatesAccess ==
    (sss.pc = "shared" /\ (sss.t = 0 \/ sss.t > sss.n)) => sss.shares = <<>>

\* The same statement of share of the two PVSS variants.
C22_PvssSharePart ==
    (pvss.pc # "idle" /\ pvss.pc # "init" /\ (pvss.t = 0 \/ pvss.t > pvss.n))
        => (pvss.pc = "panic" /\ pvss.sharing = <<>>)

\* C23: sample_poly(secret, d, rng) returns d + 1 coefficients and, for every
\* 32-byte secret supplied (those whose integer value is not below the modulus
\* included), returns normally with coefficient 0 set to the secret, so that
\* the polynomial evaluates to the secret at 0.  Stated of the call
\* sample_poly(Some(secret), t, rng) that share makes once the number of keys
\* has been checked.
C23_SamplePolyTotal ==
    (pvss.pc # "idle" /\ pvss.pc # "init" /\ pvss.n = pvss.nkeys)
        => /\ pvss.pc # "panic"
           /\ Len(pvss.polys[1]) = pvss.t + 1
           /\ pvss.polys[1][1] = pvss.secret
           /\ PolyEval(pvss.polys[1], 0) = pvss.secret

\* The part of C23 on canonical secrets.
C23_CanonicalSecretPart ==
    (pvss.pc # "idle" /\ pvss.pc # "init" /\ pvss.n = pvss.nkeys
        /\ ~NotCanonical(pvss.secret))
        => /\ pvss.pc # "panic"
           /\ Len(pvss.polys[1]) = pvss.t + 1
           /\ PolyEval(pvss.polys[1], 0) = pvss.secret

\* C20: PVSS verify, in both variants, reports every failed check (digest or
\* commitment mismatch, failed low-degree test, wrong coefficient count,
\* non-canonical plaintext, index out of range) as an explicit reject result
\* and never aborts the caller.
C20_VerifyReturnsVerdict ==
    pvss.pc = "verified" => pvss.result # "panic"

(***************************************************************************)
(* private_polling::crypto -- Fiat-Shamir NIZK proofs                       *)
(***************************************************************************)

\* The discrete logarithm of the generator g of a proof instance.
GeneratorG == 1

\* Scalar::hash_from_bytes over a transcript, as a collision-free random
\* oracle: ro is the set of <<transcript, scalar>> pairs answered so far.  A
\* transcript seen before gets its scalar again; a new transcript may get any
\* scalar that no other transcript has got.
HashAnswers(ro, transcript) ==
    IF \E e \in ro : e[1] = transcript
    THEN {e[2] : e \in {e2 \in ro : e2[1] = transcript}}
    ELSE Field \ {e[2] : e \in ro}

\* RistrettoPoint::multiscalar_mul: sum_k scalars[k] * points[k].
multiscalar_mul(scalars, points) == InnerProduct(scalars, points)

\* The zero-proof transcript without the prover's commitment A: a challenge
\* that does not bind A.
zk_pedersen_zero_proof_challenge_without_a(g, h, commitment, aa) ==
    <<"crypto-ristretto-zk-proof-of-pedersen-zero-challenge",
      "g", g, "h", h, "commitment", commitment>>

\* The transcript zk_pedersen_zero_proof_challenge hashes.
zk_pedersen_zero_proof_challenge(g, h, commitment, aa) ==
    <<"crypto-ristretto-zk-proof-of-pedersen-zero-challenge",
      "g", g, "h", h, "commitment", commitment, "A", aa>>

\* check_instance that looks at h only.
zero_check_instance_h_only(h, commitment) == h # 0

\* ZkInstancePedersenZero::check_instance.
zero_check_instance(h, commitment) == h # 0 /\ commitment # 0

\* A' computed with the challenge term added instead of subtracted.
zero_a_prime_added(h, commitment, z, c) == FAdd(FMul(h, z), FMul(commitment, c))

\* verify_nizk_pedersen_zero: A' = z*H - c*C.
zero_a_prime(h, commitment, z, c) == FSub(FMul(h, z), FMul(commitment, c))

PzInit ==
    /\ \E h \in Field, m \in {0, 1}, r \in Field :
         pz = [pc |-> "init", g |-> GeneratorG, h |-> h, m |-> m, r |-> r,
               commitment |-> FAdd(FMul(GeneratorG, m), FMul(h, r)),
               proof |-> <<>>, honest_z |-> 0, ro |-> {}, result |-> "none"]
    /\ sss = Idle /\ pvss = Idle /\ ldt = Idle /\ por = Idle
    /\ vote = Idle /\ interp = Idle /\ ped = Idle /\ runs = Idle /\ codec = Idle

\* prove_nizk_pedersen_zero with witness r.
PzProve ==
    /\ pz.pc = "init"
    /\ IF ~zero_check_instance(pz.h, pz.commitment)
       THEN pz' = [pz EXCEPT !.pc = "prove_failed", !.result = "InvalidInstance"]
       ELSE \E alpha \in Field :
              LET aa == FMul(pz.h, alpha)
                  transcript == zk_pedersen_zero_proof_challenge(
                                    pz.g, pz.h, pz.commitment, aa)
              IN  \E challenge \in HashAnswers(pz.ro, transcript) :
                    LET z == FAdd(alpha, FMul(challenge, pz.r))
                    IN  pz' = [pz EXCEPT
                                 !.pc = "proved",
                                 !.proof = [z |-> z, c |-> challenge],
                                 !.honest_z = z,
                                 !.ro = pz.ro \cup {<<transcript, challenge>>}]
    /\ UNCHANGED <<sss, pvss, ldt, por, vote, interp, ped, runs, codec>>

\* The response z of the proof is replaced by another scalar.
PzReplaceZ ==
    /\ pz.pc = "proved" /\ pz.proof.z = pz.honest_z
    /\ \E z \in Field \ {pz.honest_z} :
         pz' = [pz EXCEPT !.proof.z = z]
    /\ UNCHANGED <<sss, pvss, ldt, por, vote, interp, ped, runs, codec>>

\* verify_nizk_pedersen_zero.
PzVerify ==
    /\ pz.pc = "proved"
    /\ IF ~zero_check_instance(pz.h, pz.commitment)
       THEN pz' = [pz EXCEPT !.pc = "verified", !.result = "InvalidInstance"]
       ELSE LET a_prime == zero_a_prime(pz.h, pz.commitment, pz.proof.z, pz.proof.c)
                transcript == zk_pedersen_zero_proof_challenge(
                                  pz.g, pz.h, pz.commitment, a_prime)
            IN  \E challenge_prime \in HashAnswers(pz.ro, transcript) :
                  pz' = [pz EXCEPT
                           !.pc = "verified",
                           !.ro = pz.ro \cup {<<transcript, challenge_prime>>},
                           !.result = IF pz.proof.c = challenge_prime THEN "Ok"
                                      ELSE "InvalidProof"]
    /\ UNCHANGED <<sss, pvss, ldt, por, vote, interp, ped, runs, codec>>

\* verify_nizk_pedersen_zero on a proof (z, c) that comes from anywhere.
PzVerifyGiven ==
    /\ pz.pc = "init"
    /\ \E z \in Field, c \in Field :
         IF ~zero_check_instance(pz.h, pz.commitment)
         THEN pz' = [pz EXCEPT !.pc = "verified_given",
                               !.proof = [z |-> z, c |-> c],
                               !.result = "InvalidInstance"]
         ELSE LET a_prime == zero_a_prime(pz.h, pz.commitment, z, c)
                  transcript == zk_pedersen_zero_proof_challenge(
                                    pz.g, pz.h, pz.commitment, a_prime)
              IN  \E challenge_prime \in HashAnswers(pz.ro, transcript) :
                    pz' = [pz EXCEPT
                             !.pc = "verified_given",
                             !.proof = [z |-> z, c |-> c],
                             !.ro = pz.ro \cup {<<transcript, challenge_prime>>},
                             !.result = IF c = challenge_prime THEN "Ok"
                                        ELSE "InvalidProof"]
    /\ UNCHANGED <<sss, pvss, ldt, por, vote, interp, ped, runs, codec>>

PzNext == PzProve \/ PzReplaceZ \/ PzVerify \/ PzVerifyGiven

SpecZero == PzInit /\ [][PzNext]_vars

\* C7: for a commitment C = 0*G + r*H with H and C not the identity, the
\* proof returned by prove_nizk_pedersen_zero is accepted by the verifier,
\* whatever nonce alpha the prover drew.
C7_ProofOfZeroComplete ==
    (pz.pc = "verified" /\ pz.m = 0 /\ pz.proof.z = pz.honest_z)
    => pz.result = "Ok"

C7_Witness ==
    /\ pz.pc = "verified" /\ pz.m = 0 /\ pz.proof.z = pz.honest_z
    /\ pz.r = 2 /\ pz.h = 3 /\ pz.proof.c = 4 /\ pz.proof.z = 1
    /\ pz.result = "Ok"

\* C8: with the response z of an honest proof on a valid instance replaced by
\* any other scalar, the verifier returns Err(InvalidProof).
C8_ReplacedResponseRejected ==
    (pz.pc = "verified" /\ pz.m = 0 /\ pz.proof.z # pz.honest_z)
    => pz.result = "InvalidProof"

C8_Witness ==
    /\ pz.pc = "verified" /\ pz.m = 0 /\ pz.proof.z # pz.honest_z
    /\ pz.r = 2 /\ pz.h = 3 /\ pz.proof.c = 4
    /\ pz.result = "InvalidProof"

\* C18: prove_nizk_pedersen_zero and verify_nizk_pedersen_zero return
\* Err(InvalidInstance) whenever h or the commitment of the instance is the
\* identity, whatever the witness or the proof.
C18_ZeroInvalidInstance ==
    (pz.pc \in {"prove_failed", "proved", "verified", "verified_given"}
        /\ (pz.h = 0 \/ pz.commitment = 0))
    => pz.result = "InvalidInstance"

C18_WitnessProve ==
    /\ pz.pc = "prove_failed" /\ pz.h = 3 /\ pz.commitment = 0 /\ pz.r = 3
    /\ pz.result = "InvalidInstance"

C18_WitnessVerify ==
    /\ pz.pc = "verified_given" /\ pz.h = 3 /\ pz.commitment = 0
    /\ pz.proof = [z |-> 1, c |-> 2] /\ pz.result = "InvalidInstance"

\* The OR-proof transcript without A1 and A2.
zk_pedersen_or_proof_challenge_without_a(g, h, c, d, aa1, aa2) ==
    <<"crypto-zk-proof-of-or-pedersen-challenge",
      "g", g, "h", h, "c", c, "d", d>>

\* The transcript zk_pedersen_or_proof_challenge hashes.
zk_pedersen_or_proof_challenge(g, h, c, d, aa1, aa2) ==
    <<"crypto-zk-proof-of-or-pedersen-challenge",
      "g", g, "h", h, "c", c, "d", d, "A1", aa1, "A2", aa2>>

\* ZkInstancePedersenOr::check_instance.
or_check_instance(h, c, d) == h # 0 /\ c # 0 /\ d # 0

\* A2' computed against C instead of D.
or_verify_a2_against_c(h, c, d, z2, challenge_2) ==
    multiscalar_mul(<<z2, FNeg(challenge_2)>>, <<h, c>>)

\* verify_nizk_pedersen_or_relation: A1' = z1*H - c1*C.
or_verify_a1(h, c, z1, challenge_1) ==
    multiscalar_mul(<<z1, FNeg(challenge_1)>>, <<h, c>>)

\* verify_nizk_pedersen_or_relation: A2' = z2*H - c2*D.
or_verify_a2(h, c, d, z2, challenge_2) ==
    multiscalar_mul(<<z2, FNeg(challenge_2)>>, <<h, d>>)

PorInit ==
    /\ \E h \in Field, m \in {0, 1}, r \in Field :
         LET c == FAdd(FMul(GeneratorG, m), FMul(h, r))
         IN  por = [pc |-> "init", g |-> GeneratorG, h |-> h, m |-> m, r |-> r,
                    c |-> c, d |-> FSub(c, GeneratorG), prover |-> "none",
                    proof |-> <<>>, ro |-> {}, result |-> "none"]
    /\ sss = Idle /\ pvss = Idle /\ ldt = Idle /\ pz = Idle
    /\ vote = Idle /\ interp = Idle /\ ped = Idle /\ runs = Idle /\ codec = Idle

\* prove_nizk_pedersen_or_relation_zero: branch 1 real, branch 2 simulated.
\* An invalid instance makes .expect() panic.
PorProveZero ==
    /\ por.pc = "init"
    /\ IF ~or_check_instance(por.h, por.c, por.d)
       THEN por' = [por EXCEPT !.pc = "prove_failed", !.prover = "zero",
                                !.result = "panic"]
       ELSE \E z2, challenge_2, alpha_1 \in Field :
              LET a2 == multiscalar_mul(<<z2, FNeg(challenge_2)>>, <<por.h, por.d>>)
                  a1 == FMul(por.h, alpha_1)
                  transcript == zk_pedersen_or_proof_challenge(
                                    por.g, por.h, por.c, por.d, a1, a2)
              IN  \E challenge \in HashAnswers(por.ro, transcript) :
                    LET challenge_1 == FSub(challenge, challenge_2)
                        z1 == FAdd(alpha_1, FMul(challenge_1, por.r))
                    IN  por' = [por EXCEPT
                                  !.pc = "proved", !.prover = "zero",
                                  !.proof = [challenge_1 |-> challenge_1,
                                             challenge_2 |-> challenge_2,
                                             z1 |-> z1, z2 |-> z2],
                                  !.ro = por.ro \cup {<<transcript, challenge>>}]
    /\ UNCHANGED <<sss, pvss, ldt, pz, vote, interp, ped, runs, codec>>

\* prove_nizk_pedersen_or_relation_one: branch 2 real, branch 1 simulated.
PorProveOne ==
    /\ por.pc = "init"
    /\ IF ~or_check_instance(por.h, por.c, por.d)
       THEN por' = [por EXCEPT !.pc = "prove_failed", !.prover = "one",
                                !.result = "InvalidInstance"]
       ELSE \E z1, challenge_1, alpha_2 \in Field :
              LET a1 == multiscalar_mul(<<z1, FNeg(challenge_1)>>, <<por.h, por.c>>)
                  a2 == FMul(por.h, alpha_2)
                  transcript == zk_pedersen_or_proof_challenge(
                                    por.g, por.h, por.c, por.d, a1, a2)
              IN  \E challenge \in HashAnswers(por.ro, transcript) :
                    LET challenge_2 == FSub(challenge, challenge_1)
                        z2 == FAdd(alpha_2, FMul(challenge_2, por.r))
                    IN  por' = [por EXCEPT
                                  !.pc = "proved", !.prover = "one",
                                  !.proof = [challenge_1 |-> challenge_1,
                                             challenge_2 |-> challenge_2,
                                             z1 |-> z1, z2 |-> z2],
                                  !.ro = por.ro \cup {<<transcript, challenge>>}]
    /\ UNCHANGED <<sss, pvss, ldt, pz, vote, interp, ped, runs, codec>>

\* verify_nizk_pedersen_or_relation.
PorVerify ==
    /\ por.pc = "proved"
    /\ IF ~or_check_instance(por.h, por.c, por.d)
       THEN por' = [por EXCEPT !.pc = "verified", !.result = "InvalidInstance"]
       ELSE LET a1 == or_verify_a1(por.h, por.c, por.proof.z1, por.proof.challenge_1)
                a2 == or_verify_a2(por.h, por.c, por.d, por.proof.z2,
                                   por.proof.challenge_2)
                challenge == FAdd(por.proof.challenge_1, por.proof.challenge_2)
                transcript == zk_pedersen_or_proof_challenge(
                                  por.g, por.h, por.c, por.d, a1, a2)
            IN  \E challenge_prime \in HashAnswers(por.ro, transcript) :
                  por' = [por EXCEPT
                            !.pc = "verified",
                            !.ro = por.ro \cup {<<transcript, challenge_prime>>},
                            !.result = IF challenge # challenge_prime
                                       THEN "InvalidProof" ELSE "Ok"]
    /\ UNCHANGED <<sss, pvss, ldt, pz, vote, interp, ped, runs, codec>>

PorNext == PorProveZero \/ PorProveOne \/ PorVerify

SpecOr == PorInit /\ [][PorNext]_vars

\* An instance as a caller may build it: ZkInstancePedersenOr has the four
\* public fields g, h, c, d, and nothing makes d depend on c.  Here
\* c = m*G + rc*H for any message m, and d = r*H for the witness r the prover
\* is given.
PorFreeInit ==
    /\ \E h \in {1, 2}, m \in Field, rc \in {0, 1}, r \in Field :
         por = [pc |-> "init", g |-> GeneratorG, h |-> h, m |-> m, r |-> r,
                c |-> FAdd(FMul(GeneratorG, m), FMul(h, rc)),
                d |-> FMul(h, r), prover |-> "none",
                proof |-> <<>>, ro |-> {}, result |-> "none"]
    /\ sss = Idle /\ pvss = Idle /\ ldt = Idle /\ pz = Idle
    /\ vote = Idle /\ interp = Idle /\ ped = Idle /\ runs = Idle /\ codec = Idle

SpecOrFree == PorFreeInit /\ [][PorNext]_vars

\* C27: verify_nizk_pedersen_or_relation accepts a proof only for an instance
\* whose d equals c - g: for an instance (g, h, c, d) with d # c - g no proof
\* is accepted.
C27_AcceptedInstanceHasDEqualCMinusG ==
    (por.pc = "verified" /\ por.result = "Ok")
        => por.d = FSub(por.c, por.g)

\* The prover routine matches the message the commitment opens to.
PorMatchingProver ==
    \/ por.prover = "zero" /\ por.m = 0
    \/ por.prover = "one" /\ por.m = 1

\* The challenge of the branch the prover answers with its witness.
PorRealChallenge ==
    IF por.prover = "zero" THEN por.proof.challenge_1 ELSE por.proof.challenge_2

\* C9: on a valid instance (G,H,C,D=C-G) with C = m*G + r*H the verifier
\* accepts the proof of the zero prover when m = 0 and of the one prover when
\* m = 1, whatever alpha, simulated challenge and simulated response were drawn.
C9_ProofOfOrComplete ==
    (por.pc = "verified" /\ PorMatchingProver) => por.result = "Ok"

C9_Witness ==
    /\ por.pc = "verified" /\ por.prover = "one" /\ por.m = 1
    /\ por.r = 2 /\ por.h = 3
    /\ por.proof.challenge_1 = 1 /\ por.proof.challenge_2 = 3
    /\ por.proof.z1 = 4 /\ por.result = "Ok"

\* C19: both ProofOfOr provers return Err(InvalidInstance), and never abort,
\* when h, c or d of the instance is the identity.
C19_OrProversReturnInvalidInstance ==
    (por.pc \in {"prove_failed", "proved"}
        /\ (por.h = 0 \/ por.c = 0 \/ por.d = 0))
    => por.result = "InvalidInstance"

\* The part of C19 about prove_nizk_pedersen_or_relation_one.
C19_ProverOnePart ==
    por.prover = "one" => C19_OrProversReturnInvalidInstance

VoteMaxChoices == 3
VoteMaxNodes == 2
VoteMaxT == 2
VoteMaxRand == 1

\* The scalars Scalar::random may return in the vote builder.
VoteRand == 0..VoteMaxRand

\* PedersenGens::commit(value, blinding) = value*B + blinding*B_blinding,
\* where h is the discrete logarithm of B_blinding.
pedersen_gens_commit(h, value, blinding) ==
    FAdd(FMul(value, GeneratorG), FMul(blinding, h))

\* Polynomial::get_n_evals: the evaluations at 1..n.
get_n_evals(coefficients, n) ==
    [i \in 1..n |-> evaluate_at(coefficients, i % FieldOrder)]

\* compute_commited_shares indexes coefficients[0] of a polynomial that
\* Polynomial::random has made canonical: out of bounds when every sampled
\* coefficient is zero.
CommitedSharesPanics(x_rnd, r_rnd) ==
    Len(polynomial_random(x_rnd)) = 0 \/ Len(polynomial_random(r_rnd)) = 0

\* The two polynomials compute_commited_shares evaluates: x_poly and r_poly,
\* each Polynomial::random(t) with coefficients[0] overwritten.
commited_shares_polys(x, x_rnd, r, r_rnd) ==
    <<[polynomial_random(x_rnd) EXCEPT ![1] = x],
      [polynomial_random(r_rnd) EXCEPT ![1] = r]>>

\* compute_commited_shares(x, n, t) for the sampled coefficients x_rnd and
\* r_rnd (t each) and the sampled r: the share commitments, entry 1 being the
\* commitment to (x, r).
compute_commited_shares(h, x, n, x_rnd, r, r_rnd) ==
    LET x_poly == commited_shares_polys(x, x_rnd, r, r_rnd)[1]
        x_shares == get_n_evals(x_poly, n)
        r_poly == commited_shares_polys(x, x_rnd, r, r_rnd)[2]
        r_shares == get_n_evals(r_poly, n)
    IN  <<pedersen_gens_commit(h, x, r)>> \o
        [j \in 1..n |-> pedersen_gens_commit(h, x_shares[j], r_shares[j])]

\* The x_shares and r_shares compute_commited_shares returns.
commited_shares_evals(x, n, x_rnd, r, r_rnd) ==
    <<get_n_evals(commited_shares_polys(x, x_rnd, r, r_rnd)[1], n),
      get_n_evals(commited_shares_polys(x, x_rnd, r, r_rnd)[2], n)>>

\* ibe_encryption::ibe_encrypt of a scalar under the identity of server j
\* (0-based); ibe_decrypt with that server's key returns the scalar.
polling_ibe_encrypt(input, j) == [owner |-> j, msg |-> input]

\* create_vote's server_enc_shares: for every choice i, for every server j,
\* one pushed pair; evals[i] are the x_shares and r_shares of choice i.
server_enc_shares(evals, num_nodes) ==
    [p \in 1..(Len(evals) * num_nodes) |->
        LET i == ((p - 1) \div num_nodes) + 1
            j == (p - 1) % num_nodes
        IN  <<polling_ibe_encrypt(evals[i][1][j + 1], j),
              polling_ibe_encrypt(evals[i][2][j + 1], j)>>]

\* The index into encrypted_shares that verify_vote_server computes for
\* choice i (0-based) and the server it verifies for, server 0.
server_share_index(i, total_choices) == i * total_choices + 0

\* choice_selected_index: the position of the first 1 (0-based).
choice_selected_index(answers) ==
    CHOOSE i \in 0..(Len(answers) - 1) :
        answers[i + 1] = 1 /\ \A l \in 1..i : answers[l] # 1

\* verify_nizk_pedersen_or_relation on a proof of create_vote, which holds the
\* branch of the prover that made it and that prover's witness r: a proof
\* of the prover matching the committed bit is accepted on a valid instance;
\* one of the other prover is accepted only on a zero challenge (lucky).
or_proof_verifies(h, c, proof, lucky) ==
    /\ or_check_instance(h, c, FSub(c, GeneratorG))
    /\ \/ c = pedersen_gens_commit(h, IF proof.branch = "one" THEN 1 ELSE 0,
                                   proof.r)
       \/ lucky

\* The sum of a sequence of scalars.
RECURSIVE SumSeq(_)
SumSeq(xs) == IF Len(xs) = 0 THEN 0 ELSE FAdd(Head(xs), SumSeq(Tail(xs)))

\* verify_vote_sc, step 1: the sum of every choice's commitment [0] plus
\* commit_pad.
vote_sum_commitment(commited_shares, commit_pad) ==
    FAdd(SumSeq([i \in 1..Len(commited_shares) |-> commited_shares[i][1]]),
         commit_pad)

VoteInit ==
    /\ \E k \in 0..VoteMaxChoices :
         \E answers \in [1..k -> {0, 1}], n \in 1..VoteMaxNodes,
            t \in 1..VoteMaxT, h \in 1..(FieldOrder - 1) :
           vote = [pc |-> "init", h |-> h, poll_answer_bit_vector |-> answers,
                   num_nodes |-> n, threshold |-> t, polys |-> <<>>,
                   commited_shares |-> <<>>,
                   nizk_commit_zero_or_one |-> <<>>,
                   encrypted_shares |-> <<>>,
                   commit_pad |-> 0, commitment_r_sum |-> 0,
                   aggregate |-> "none", substituted |-> -1, sc |-> "none",
                   server |-> "none"]
    /\ sss = Idle /\ pvss = Idle /\ ldt = Idle /\ pz = Idle /\ por = Idle
    /\ interp = Idle /\ ped = Idle /\ runs = Idle /\ codec = Idle

\* create_vote.  The OR proofs and the proof of zero enter only through the
\* instance checks of their provers, whose errors create_vote unwraps.
VoteCreate ==
    /\ vote.pc = "init"
    /\ LET answers == vote.poll_answer_bit_vector
           k == Len(answers)
           t == vote.threshold
       IN  \E x_rnd \in [1..k -> [1..t -> VoteRand]],
              r_rnd \in [1..k -> [1..t -> VoteRand]],
              r \in [1..k -> VoteRand], r_pad \in VoteRand :
             LET no_choice == \A i \in 1..k : answers[i] # 1
                 shares_panic == \E i \in 1..k :
                                    CommitedSharesPanics(x_rnd[i], r_rnd[i])
                 comm_shares == [i \in 1..k |->
                                   compute_commited_shares(vote.h, answers[i],
                                       vote.num_nodes, x_rnd[i], r[i], r_rnd[i])]
                 or_invalid == \E i \in 1..k :
                                  ~or_check_instance(vote.h, comm_shares[i][1],
                                       FSub(comm_shares[i][1], GeneratorG))
                 commit_zero == pedersen_gens_commit(vote.h, 0, r_pad)
                 pad_invalid == ~zero_check_instance(vote.h, commit_zero)
             IN  IF no_choice \/ shares_panic \/ or_invalid \/ pad_invalid
                 THEN vote' = [vote EXCEPT !.pc = "create_panic"]
                 ELSE vote' = [vote EXCEPT
                                 !.pc = "created",
                                 !.polys = [i \in 1..k |->
                                              commited_shares_polys(answers[i],
                                                  x_rnd[i], r[i], r_rnd[i])],
                                 !.commited_shares = comm_shares,
                                 !.nizk_commit_zero_or_one =
                                     [i \in 1..k |->
                                        [branch |->
                                           IF i - 1 = choice_selected_index(answers)
                                           THEN "one" ELSE "zero",
                                         r |-> r[i]]],
                                 !.encrypted_shares =
                                     server_enc_shares(
                                        [i \in 1..k |->
                                           commited_shares_evals(answers[i],
                                              vote.num_nodes, x_rnd[i], r[i],
                                              r_rnd[i])],
                                        vote.num_nodes),
                                 !.commit_pad = commit_zero,
                                 !.commitment_r_sum = FAdd(r_pad, SumSeq(r))]
    /\ UNCHANGED <<sss, pvss, ldt, pz, por, interp, ped, runs, codec>>

\* verify_vote_sc, step 1: assert_eq!(commitment_sum, sum_commitment).
VoteAggregateCheck ==
    /\ vote.pc = "created"
    /\ LET sum_commitment == vote_sum_commitment(vote.commited_shares,
                                                 vote.commit_pad)
           commitment_sum == pedersen_gens_commit(vote.h, 1,
                                                  vote.commitment_r_sum)
       IN  vote' = [vote EXCEPT
                      !.pc = "checked",
                      !.aggregate = IF commitment_sum = sum_commitment
                                    THEN "pass" ELSE "fail"]
    /\ UNCHANGED <<sss, pvss, ldt, pz, por, interp, ped, runs, codec>>

\* The sender of a vote replaces, for one choice i, the per-party commitments
\* commited_shares[i][1..] and the encrypted shares of that choice by those
\* of another call compute_commited_shares(x, n, t); the self-commitment
\* commited_shares[i][0] and the proofs stay.
VoteSubstituteShares ==
    /\ vote.pc = "created" /\ vote.substituted = -1
    /\ vote.sc = "none" /\ vote.server = "none"
    /\ LET n == vote.num_nodes
           t == vote.threshold
       IN  \E i \in 1..Len(vote.commited_shares), x \in {0, 1},
              x_rnd \in [1..t -> VoteRand], r \in VoteRand,
              r_rnd \in [1..t -> VoteRand] :
             /\ ~CommitedSharesPanics(x_rnd, r_rnd)
             /\ LET comms == compute_commited_shares(vote.h, x, n, x_rnd, r, r_rnd)
                    evals == commited_shares_evals(x, n, x_rnd, r, r_rnd)
                IN  vote' = [vote EXCEPT
                       !.substituted = i - 1,
                       !.commited_shares[i] =
                           <<vote.commited_shares[i][1]>> \o Tail(comms),
                       !.encrypted_shares =
                           [p \in 1..Len(vote.encrypted_shares) |->
                              IF (p - 1) \div n = i - 1
                              THEN <<polling_ibe_encrypt(
                                        evals[1][((p - 1) % n) + 1], (p - 1) % n),
                                     polling_ibe_encrypt(
                                        evals[2][((p - 1) % n) + 1], (p - 1) % n)>>
                              ELSE vote.encrypted_shares[p]]]
    /\ UNCHANGED <<sss, pvss, ldt, pz, por, interp, ped, runs, codec>>

\* verify_vote_sc: the sum check, the proof of zero of commit_pad and the OR
\* proof of every choice; every failed check is a failed assert.
VoteVerifySc ==
    /\ vote.pc = "created" /\ vote.sc = "none"
    /\ \E lucky \in BOOLEAN :
         LET sum_commitment == vote_sum_commitment(vote.commited_shares,
                                                   vote.commit_pad)
             commitment_sum == pedersen_gens_commit(vote.h, 1,
                                                    vote.commitment_r_sum)
             ok == /\ commitment_sum = sum_commitment
                   /\ zero_check_instance(vote.h, vote.commit_pad)
                   /\ \A i \in 1..Len(vote.commited_shares) :
                         or_proof_verifies(vote.h, vote.commited_shares[i][1],
                                           vote.nizk_commit_zero_or_one[i], lucky)
         IN  vote' = [vote EXCEPT !.sc = IF ok THEN "ok" ELSE "panic"]
    /\ UNCHANGED <<sss, pvss, ldt, pz, por, interp, ped, runs, codec>>

\* verify_vote_server: the low-degree test of every choice, asserted; then,
\* for every choice, the pair at encrypted_shares[i*total_choices + 0] is
\* decrypted with the key of server 0 and committed to; the comparison with
\* comm_shares[1] is computed and dropped.
VoteVerifyServer ==
    /\ vote.pc = "created" /\ vote.server = "none"
    /\ LET total_choices == Len(vote.commited_shares)
           n == vote.num_nodes
           t == vote.threshold
           zlen == IF t = n \/ GetDualCodewordUnderflows(t - 1, n) THEN 0
                   ELSE DualCodewordLen(t - 1, n)
       IN  \E rnd \in [1..total_choices -> [1..zlen -> VoteRand]] :
             LET test_fails ==
                   \E i \in 1..total_choices :
                      \/ PerformLowDegreeTestPanics(vote.commited_shares[i], n, t)
                      \/ ~perform_low_degree_test(vote.commited_shares[i], n, t,
                                                  rnd[i])
                 out_of_bounds ==
                   \E i \in 0..(total_choices - 1) :
                      server_share_index(i, total_choices)
                          >= Len(vote.encrypted_shares)
             IN  vote' = [vote EXCEPT
                            !.server = IF test_fails \/ out_of_bounds
                                       THEN "panic" ELSE "ok"]
    /\ UNCHANGED <<sss, pvss, ldt, pz, por, interp, ped, runs, codec>>

VoteNext ==
    \/ VoteCreate
    \/ VoteAggregateCheck
    \/ VoteSubstituteShares
    \/ VoteVerifySc
    \/ VoteVerifyServer

SpecVote == VoteInit /\ [][VoteNext]_vars

\* Exactly one entry of the answer vector is 1.
OneHot(answers) == Cardinality({i \in 1..Len(answers) : answers[i] = 1}) = 1

\* C11: create_vote builds a vote for every answer vector, and the aggregate
\* check of verify_vote_sc passes on it when the vector is one-hot and fails
\* when it is all-zero or multi-hot.
C11_VoteAggregateCheck ==
    /\ vote.pc # "create_panic"
    /\ vote.pc = "checked"
       => (vote.aggregate = "pass" <=> OneHot(vote.poll_answer_bit_vector))

\* The part of C11 about the votes that create_vote does build.
C11_BuiltVotesPart ==
    vote.pc = "checked"
    => (vote.aggregate = "pass" <=> OneHot(vote.poll_answer_bit_vector))

\* Canonical form of a coefficient vector: no trailing zero coefficient, the
\* zero polynomial being the empty vector.
IsCanonical(coefficients) ==
    Len(coefficients) = 0 \/ coefficients[Len(coefficients)] # 0

\* C25: every Polynomial value the code constructs and then evaluates (From,
\* zero, random, and the coefficient-0 overwrite in compute_commited_shares for
\* any bit x and any t >= 1) is in canonical form.  Stated of the polynomials
\* x_poly and r_poly that compute_commited_shares passes to get_n_evals.
C25_EvaluatedPolynomialsCanonical ==
    (vote.pc = "created" \/ vote.pc = "checked")
        => \A i \in 1..Len(vote.polys) :
              IsCanonical(vote.polys[i][1]) /\ IsCanonical(vote.polys[i][2])

\* The part of C25 before the overwrite: what Polynomial::random returns.
C25_RandomPart ==
    \A rnd \in [1..VoteMaxT -> VoteRand] : IsCanonical(polynomial_random(rnd))

\* The commitments evals[0..n] lie, in the exponent, on one polynomial with at
\* most k coefficients taken at the points 0..n.
SelfCommitmentOnSharePolynomial(evals, k) ==
    \E q \in [1..k -> Field] :
        \A idx \in 1..Len(evals) :
            PolyEval(q, (idx - 1) % FieldOrder) = evals[idx]

\* C26: for every vote accepted by both verify_vote_sc and
\* verify_vote_server, each choice's self-commitment comm_shares[0] is the
\* value at 0 of the polynomial of degree <= t - 1, in the exponent, through
\* that choice's per-party commitments comm_shares[1..n].
C26_SelfCommitmentBoundToShares ==
    (vote.pc = "created" /\ vote.sc = "ok" /\ vote.server = "ok")
        => \A i \in 1..Len(vote.commited_shares) :
              SelfCommitmentOnSharePolynomial(vote.commited_shares[i],
                                              vote.threshold)

\* The part of C26 on the votes as create_vote returns them.
C26_UntouchedVotePart ==
    (vote.pc = "created" /\ vote.substituted = -1)
        => \A i \in 1..Len(vote.commited_shares) :
              SelfCommitmentOnSharePolynomial(vote.commited_shares[i],
                                              vote.threshold)

\* C28: in a Vote built by create_vote for k choices and num_nodes servers the
\* pair of choice i for server j is stored at encrypted_shares[i*num_nodes + j],
\* and verify_vote_server reads, for every choice i, the pair encrypted for
\* server 0 for that choice, for every k and num_nodes.
C28_ServerReadsItsOwnPairs ==
    (vote.pc = "created" /\ vote.substituted = -1)
        => LET k == Len(vote.commited_shares)
               n == vote.num_nodes
           IN  /\ Len(vote.encrypted_shares) = k * n
               /\ \A i \in 0..(k - 1), j \in 0..(n - 1) :
                     vote.encrypted_shares[i * n + j + 1] =
                        <<polling_ibe_encrypt(
                             get_n_evals(vote.polys[i + 1][1], n)[j + 1], j),
                          polling_ibe_encrypt(
                             get_n_evals(vote.polys[i + 1][2], n)[j + 1], j)>>
               /\ vote.server # "none"
                  => \A i \in 0..(k - 1) :
                        server_share_index(i, k) = i * n + 0

\* The part of C28 on where create_vote stores the pairs.
C28_StoragePart ==
    (vote.pc = "created" /\ vote.substituted = -1)
        => LET k == Len(vote.commited_shares)
               n == vote.num_nodes
           IN  /\ Len(vote.encrypted_shares) = k * n
               /\ \A i \in 0..(k - 1), j \in 0..(n - 1) :
                     vote.encrypted_shares[i * n + j + 1] =
                        <<polling_ibe_encrypt(
                             get_n_evals(vote.polys[i + 1][1], n)[j + 1], j),
                          polling_ibe_encrypt(
                             get_n_evals(vote.polys[i + 1][2], n)[j + 1], j)>>

(***************************************************************************)
(* private_polling::crypto::interpolate                                     *)
(***************************************************************************)

InterpMaxLen == 3

\* contains_duplicates: insert the scalars into a set one by one, true at the
\* first one that is already there.
RECURSIVE ContainsDuplicatesFrom(_, _, _)
ContainsDuplicatesFrom(scalars, k, set) ==
    IF k > Len(scalars) THEN FALSE
    ELSE IF scalars[k] \in set THEN TRUE
    ELSE ContainsDuplicatesFrom(scalars, k + 1, set \cup {scalars[k]})

contains_duplicates(scalars) == ContainsDuplicatesFrom(scalars, 1, {})

\* The product of samples[from..to].
RECURSIVE RangeProd(_, _, _)
RangeProd(samples, from, to) ==
    IF from > to THEN 1
    ELSE FMul(samples[from], RangeProd(samples, from + 1, to))

\* x_prod[i] after the two passes: the prefix product of the samples before i
\* times the product of the samples after i.
x_prod(samples, i) ==
    FMul(RangeProd(samples, 1, i - 1), RangeProd(samples, i + 1, Len(samples)))

\* The denominator with the difference taken as x_i - x_j.
RECURSIVE lagrange_denom_swapped(_, _, _)
lagrange_denom_swapped(samples, i, j) ==
    IF j > Len(samples) THEN 1
    ELSE IF j = i THEN lagrange_denom_swapped(samples, i, j + 1)
    ELSE FMul(FSub(samples[i], samples[j]),
              lagrange_denom_swapped(samples, i, j + 1))

\* denom = product over j # i of (x_j - x_i), taken from index j on.
RECURSIVE lagrange_denom(_, _, _)
lagrange_denom(samples, i, j) ==
    IF j > Len(samples) THEN 1
    ELSE IF j = i THEN lagrange_denom(samples, i, j + 1)
    ELSE FMul(FSub(samples[j], samples[i]), lagrange_denom(samples, i, j + 1))

\* lagrange_coefficients_at_zero without the duplicate checks.
lagrange_coefficients_at_zero_unchecked(samples) ==
    [err |-> "none",
     coefficients |-> [i \in 1..Len(samples) |->
                         FMul(x_prod(samples, i),
                              FInv(lagrange_denom(samples, i, 1)))]]

\* lagrange_coefficients_at_zero: Ok(coefficients) or Err(DuplicateX).
lagrange_coefficients_at_zero(samples) ==
    IF Len(samples) = 0 THEN [err |-> "none", coefficients |-> <<>>]
    ELSE IF Len(samples) = 1 THEN [err |-> "none", coefficients |-> <<1>>]
    ELSE IF contains_duplicates(samples)
         THEN [err |-> "DuplicateX", coefficients |-> <<>>]
    ELSE IF \E i \in 1..Len(samples) : lagrange_denom(samples, i, 1) = 0
         THEN [err |-> "DuplicateX", coefficients |-> <<>>]
    ELSE [err |-> "none",
          coefficients |-> [i \in 1..Len(samples) |->
                              FMul(x_prod(samples, i),
                                   FInv(lagrange_denom(samples, i, 1)))]]

\* interpolate_scalar on samples <<x, y>>: Ok(value) or Err(DuplicateX).
interpolate_scalar(samples) ==
    LET all_x == [i \in 1..Len(samples) |-> samples[i][1]]
        res == lagrange_coefficients_at_zero(all_x)
    IN  IF res.err # "none" THEN [err |-> res.err, value |-> 0]
        ELSE [err |-> "none",
              value |-> InnerProduct(res.coefficients,
                                     [i \in 1..Len(samples) |-> samples[i][2]])]

\* interpolate_g1 on samples <<x, y>>, y the discrete logarithm of the point.
interpolate_g1(samples) ==
    LET all_x == [i \in 1..Len(samples) |-> samples[i][1]]
        res == lagrange_coefficients_at_zero(all_x)
    IN  IF res.err # "none" THEN [err |-> res.err, value |-> 0]
        ELSE [err |-> "none",
              value |-> InnerProduct([i \in 1..Len(samples) |-> samples[i][2]],
                                     res.coefficients)]

\* The polynomial polynomial[1] + polynomial[2]*x + ... at the points xs; a
\* polynomial has at most as many coefficients as there are points.
InterpInit ==
    /\ \E m \in 0..InterpMaxLen :
         \E xs \in [1..m -> Field], polynomial \in [1..m -> Field] :
           interp = [pc |-> "init", xs |-> xs, polynomial |-> polynomial,
                     op |-> "none", err |-> "none", coefficients |-> <<>>,
                     value |-> 0]
    /\ sss = Idle /\ pvss = Idle /\ ldt = Idle /\ pz = Idle /\ por = Idle
    /\ vote = Idle /\ ped = Idle /\ runs = Idle /\ codec = Idle

\* A call of lagrange_coefficients_at_zero on the points.
InterpLagrange ==
    /\ interp.pc = "init"
    /\ LET res == lagrange_coefficients_at_zero(interp.xs)
       IN  interp' = [interp EXCEPT !.pc = "done", !.op = "lagrange",
                                    !.err = res.err,
                                    !.coefficients = res.coefficients]
    /\ UNCHANGED <<sss, pvss, ldt, pz, por, vote, ped, runs, codec>>

\* A call of interpolate_scalar on the samples (x_i, f(x_i)).
InterpScalar ==
    /\ interp.pc = "init"
    /\ LET samples == [i \in 1..Len(interp.xs) |->
                         <<interp.xs[i], PolyEval(interp.polynomial, interp.xs[i])>>]
           res == interpolate_scalar(samples)
       IN  interp' = [interp EXCEPT !.pc = "done", !.op = "scalar",
                                    !.err = res.err, !.value = res.value]
    /\ UNCHANGED <<sss, pvss, ldt, pz, por, vote, ped, runs, codec>>

\* A call of interpolate_g1 on the samples (x_i, f(x_i)*g).
InterpG1 ==
    /\ interp.pc = "init"
    /\ LET samples == [i \in 1..Len(interp.xs) |->
                         <<interp.xs[i],
                           FMul(PolyEval(interp.polynomial, interp.xs[i]),
                                GeneratorG)>>]
           res == interpolate_g1(samples)
       IN  interp' = [interp EXCEPT !.pc = "done", !.op = "g1",
                                    !.err = res.err, !.value = res.value]
    /\ UNCHANGED <<sss, pvss, ldt, pz, por, vote, ped, runs, codec>>

InterpNext == InterpLagrange \/ InterpScalar \/ InterpG1

SpecInterp == InterpInit /\ [][InterpNext]_vars

\* f(0) for the polynomial of the state.
InterpAtZero == PolyEval(interp.polynomial, 0)

\* C12: for m >= 1 pairwise-distinct points (0 allowed) and every polynomial
\* f of degree < m, the weights of lagrange_coefficients_at_zero satisfy
\* sum_i w_i*f(x_i) = f(0), interpolate_scalar returns f(0) and
\* interpolate_g1 returns f(0)*g.
C12_InterpolationAtZero ==
    (interp.pc = "done" /\ Len(interp.xs) >= 1 /\ Distinct(interp.xs))
    => /\ interp.err = "none"
       /\ interp.op = "lagrange"
          => InnerProduct(interp.coefficients,
                 [i \in 1..Len(interp.xs) |->
                    PolyEval(interp.polynomial, interp.xs[i])]) = InterpAtZero
       /\ interp.op = "scalar" => interp.value = InterpAtZero
       /\ interp.op = "g1" => interp.value = FMul(InterpAtZero, GeneratorG)

C12_Witness ==
    /\ interp.pc = "done" /\ interp.op = "g1"
    /\ interp.xs = <<3, 0, 4>> /\ interp.polynomial = <<2, 4, 4>>
    /\ interp.err = "none" /\ interp.value = 2

\* C13: lagrange_coefficients_at_zero returns Err(DuplicateX), and no weights,
\* whenever its input of length >= 2 has two equal x-coordinates, at any
\* positions.
C13_DuplicateXRejected ==
    (interp.pc = "done" /\ interp.op = "lagrange" /\ Len(interp.xs) >= 2
        /\ ~Distinct(interp.xs))
    => (interp.err = "DuplicateX" /\ interp.coefficients = <<>>)

C13_Witness ==
    /\ interp.pc = "done" /\ interp.op = "lagrange"
    /\ interp.xs = <<2, 4, 2>> /\ interp.err = "DuplicateX"

\* The samples with the first entry for each x only.
RECURSIVE FirstSamples(_, _)
FirstSamples(samples, seen) ==
    IF Len(samples) = 0 THEN <<>>
    ELSE IF Head(samples)[1] \in seen THEN FirstSamples(Tail(samples), seen)
    ELSE <<Head(samples)>> \o
         FirstSamples(Tail(samples), seen \cup {Head(samples)[1]})

\* C14: when the samples of interpolate_scalar or interpolate_g1 have several
\* entries with the same x, the call still returns the interpolated value,
\* computed from the first sample for each x.
C14_FirstSampleContributes ==
    (interp.pc = "done" /\ interp.op \in {"scalar", "g1"}
        /\ ~Distinct(interp.xs))
    => /\ interp.err = "none"
       /\ interp.value =
            interpolate_scalar(FirstSamples(
                [i \in 1..Len(interp.xs) |->
                   <<interp.xs[i], PolyEval(interp.polynomial, interp.xs[i])>>],
                {})).value

(***************************************************************************)
(* pqppvss::pedcom -- commitments added as group elements                   *)
(***************************************************************************)

PedInit ==
    /\ \E h \in 1..(FieldOrder - 1), m1 \in Field, r1 \in Field,
          m2 \in Field, r2 \in Field :
         ped = [pc |-> "init", h |-> h, m1 |-> m1, r1 |-> r1, m2 |-> m2,
                r2 |-> r2, c1 |-> 0, c2 |-> 0, sum |-> 0]
    /\ sss = Idle /\ pvss = Idle /\ ldt = Idle /\ pz = Idle /\ por = Idle
    /\ vote = Idle /\ interp = Idle /\ runs = Idle /\ codec = Idle

\* commit(params, m1, r1) and commit(params, m2, r2).
PedCommit ==
    /\ ped.pc = "init"
    /\ ped' = [ped EXCEPT !.pc = "committed",
                          !.c1 = pedcom_commit(ped.h, ped.m1, ped.r1),
                          !.c2 = pedcom_commit(ped.h, ped.m2, ped.r2)]
    /\ UNCHANGED <<sss, pvss, ldt, pz, por, vote, interp, runs, codec>>

\* The two commitments added in the group.
PedAdd ==
    /\ ped.pc = "committed"
    /\ ped' = [ped EXCEPT !.pc = "added", !.sum = FAdd(ped.c1, ped.c2)]
    /\ UNCHANGED <<sss, pvss, ldt, pz, por, vote, interp, runs, codec>>

PedNext == PedCommit \/ PedAdd

SpecCommit == PedInit /\ [][PedNext]_vars

\* C15: commit(m1,r1) + commit(m2,r2) = commit(m1+m2, r1+r2) for all
\* messages and randomness under the same params.
C15_CommitHomomorphic ==
    ped.pc = "added"
    => ped.sum = pedcom_commit(ped.h, FAdd(ped.m1, ped.m2), FAdd(ped.r1, ped.r2))

C15_Witness ==
    /\ ped.pc = "added" /\ ped.h = 3
    /\ ped.m1 = 3 /\ ped.r1 = 2 /\ ped.m2 = 4 /\ ped.r2 = 4
    /\ ped.c1 = 4 /\ ped.c2 = 1 /\ ped.sum = 0

(***************************************************************************)
(* Successive invocations of the low-degree tests                           *)
(***************************************************************************)

FreshMaxN == 3
FreshMaxRuns == 2
FreshMaxCoeff == 1

\* The instances under test: evaluations of the polynomials with two
\* coefficients in 0..FreshMaxCoeff.
FreshPolys == [1..2 -> 0..FreshMaxCoeff]

\* runs.log has one entry per invocation: the function, the instance, the
\* number of the random draw its check polynomial came from, whether that draw
\* was made inside the invocation, and the verdict.  runs.dual_codeword is the
\* codeword the caller holds from a call of get_dual_codeword.
FreshInit ==
    /\ \E n \in 3..FreshMaxN : \E t \in 1..(n - 2) :
         runs = [pc |-> "run", n |-> n, t |-> t, draws |-> 0,
                 dual_codeword |-> [draw |-> 0, vf |-> <<>>], log |-> <<>>]
    /\ sss = Idle /\ pvss = Idle /\ ldt = Idle /\ pz = Idle /\ por = Idle
    /\ vote = Idle /\ interp = Idle /\ ped = Idle /\ codec = Idle

\* pedcom::degree_check on an instance: z is sampled in the call.
FreshDegreeCheck ==
    /\ runs.pc = "run" /\ Len(runs.log) < FreshMaxRuns
    /\ \E poly \in FreshPolys,
          z \in [1..DegreeCheckZLen(runs.n, runs.t) -> Field] :
         LET commitments == CommitmentsOf(poly, runs.n)
         IN  runs' = [runs EXCEPT
                        !.draws = runs.draws + 1,
                        !.log = Append(runs.log,
                            [fn |-> "degree_check", instance |-> commitments,
                             draw |-> runs.draws + 1, sampled |-> TRUE,
                             result |-> degree_check(commitments, runs.t, z)])]
    /\ UNCHANGED <<sss, pvss, ldt, pz, por, vote, interp, ped, codec>>

\* PublicEvals::perform_low_degree_test on an instance: the dual codeword is
\* sampled in the call.
FreshPerformLowDegreeTest ==
    /\ runs.pc = "run" /\ Len(runs.log) < FreshMaxRuns
    /\ \E poly \in FreshPolys,
          rnd \in [1..DualCodewordLen(runs.t - 1, runs.n) -> Field] :
         LET evals == PublicEvalsOf(poly, runs.n)
         IN  runs' = [runs EXCEPT
                        !.draws = runs.draws + 1,
                        !.log = Append(runs.log,
                            [fn |-> "perform_low_degree_test",
                             instance |-> evals,
                             draw |-> runs.draws + 1, sampled |-> TRUE,
                             result |-> perform_low_degree_test(
                                            evals, runs.n, runs.t, rnd)])]
    /\ UNCHANGED <<sss, pvss, ldt, pz, por, vote, interp, ped, codec>>

\* The caller computes a dual codeword with get_dual_codeword and keeps it.
FreshPrecompute ==
    /\ runs.pc = "run" /\ runs.dual_codeword.draw = 0
    /\ \E rnd \in [1..DualCodewordLen(runs.t - 1, runs.n) -> Field] :
         runs' = [runs EXCEPT
                    !.draws = runs.draws + 1,
                    !.dual_codeword =
                        [draw |-> runs.draws + 1,
                         vf |-> get_dual_codeword(runs.t - 1, runs.n, rnd)]]
    /\ UNCHANGED <<sss, pvss, ldt, pz, por, vote, interp, ped, codec>>

\* PublicEvals::perform_low_degree_test_with_precomputation on an instance,
\* with the codeword the caller holds.
FreshPerformWithPrecomputation ==
    /\ runs.pc = "run" /\ Len(runs.log) < FreshMaxRuns
    /\ runs.dual_codeword.draw # 0
    /\ \E poly \in FreshPolys :
         LET evals == PublicEvalsOf(poly, runs.n)
         IN  runs' = [runs EXCEPT
                        !.log = Append(runs.log,
                            [fn |-> "perform_low_degree_test_with_precomputation",
                             instance |-> evals,
                             draw |-> runs.dual_codeword.draw,
                             sampled |-> FALSE,
                             result |-> perform_low_degree_test_with_precomputation(
                                            evals, runs.n, runs.t,
                                            runs.dual_codeword.vf)])]
    /\ UNCHANGED <<sss, pvss, ldt, pz, por, vote, interp, ped, codec>>

FreshNext ==
    \/ FreshDegreeCheck
    \/ FreshPerformLowDegreeTest
    \/ FreshPrecompute
    \/ FreshPerformWithPrecomputation

SpecFresh == FreshInit /\ [][FreshNext]_vars

\* The invocations of the log made by the functions in fns use a draw made in
\* the invocation, and no two of them on distinct instances use the same draw.
FreshDrawPerInvocation(fns) ==
    /\ \A i \in 1..Len(runs.log) :
         runs.log[i].fn \in fns => runs.log[i].sampled
    /\ \A i, j \in 1..Len(runs.log) :
         (i # j /\ runs.log[i].fn \in fns /\ runs.log[j].fn \in fns
             /\ runs.log[i].instance # runs.log[j].instance)
         => runs.log[i].draw # runs.log[j].draw

\* C17: every invocation of degree_check, perform_low_degree_test and
\* perform_low_degree_test_with_precomputation uses a check polynomial sampled
\* for that invocation, and no two verifications of distinct instances run
\* against the same draw.
C17_FreshCheckPolynomial ==
    runs.pc = "run"
    => FreshDrawPerInvocation({"degree_check", "perform_low_degree_test",
                               "perform_low_degree_test_with_precomputation"})

\* The part of C17 about the two functions that sample in the call.
C17_SamplingFunctionsPart ==
    runs.pc = "run"
    => FreshDrawPerInvocation({"degree_check", "perform_low_degree_test"})

(***************************************************************************)
(* ibe::bitcodec of pqppvss and ibe_encryption::bitcodec of private_polling *)
(***************************************************************************)

\* The length of the message vector of the lattice IBE, in coefficients.
\* The sizes of the codecs are scaled down by 32: the 96-byte block to 3
\* bytes, the 32-byte block to 1 byte, the 1024 coefficients to 32.
N0 == 32

\* pqppvss: the block is [u8; 96], the decoder reads the bits 0..768 and both
\* directions assert N0 >= 1024.
PvssBlockBytes == 3
PvssDecodeBits == 24
PvssMinN0 == 32

\* private_polling: the block is [u8; 32], the decoder reads the bits 0..256
\* and both directions assert N0 >= 256.
PollBlockBytes == 1
PollDecodeBits == 8
PollMinN0 == 8

\* The byte values the blocks are drawn from.
ByteSamples == {0, 1, 37, 128, 165, 255}

\* (b >> bit) & 1 on a byte.
BitOf(b, bit) == (b \div (2 ^ bit)) % 2

\* The little-endian loop of scalar_bytes_to_encryption_input, common to the
\* two crates: msg starts all zero, msg[byte_idx*8 + bit] = (b >> bit) & 1.
\* Entry k of the model's sequence is msg[k - 1].
BytesToMsg(bytes) ==
    [k \in 1..N0 |->
        IF k <= Len(bytes) * 8
        THEN BitOf(bytes[((k - 1) \div 8) + 1], (k - 1) % 8)
        ELSE 0]

\* The loop of decryption_output_to_scalar_bytes over the bits 0..bits - 1:
\* bytes[bit_idx / 8] |= (msg[bit_idx] & 1) << (bit_idx % 8).
RECURSIVE OrBits(_, _, _)
OrBits(msg, byte, bit) ==
    IF bit = 8 THEN 0
    ELSE (msg[byte * 8 + bit + 1] % 2) * (2 ^ bit) + OrBits(msg, byte, bit + 1)

\* The decoder with the bits of each byte taken most significant first.
MsgToBytesBigEndian(msg, nbytes, bits) ==
    [b \in 1..nbytes |->
        IF (b - 1) * 8 < bits
        THEN LET v == OrBits(msg, b - 1, 0)
             IN  (v % 2) * 128 + ((v \div 2) % 2) * 64 + ((v \div 4) % 2) * 32
                 + ((v \div 8) % 2) * 16 + ((v \div 16) % 2) * 8
                 + ((v \div 32) % 2) * 4 + ((v \div 64) % 2) * 2 + (v \div 128)
        ELSE 0]

\* The block the decoder returns: the bytes below bits / 8 are assembled from
\* their eight coefficients, least significant bit first.
MsgToBytes(msg, nbytes, bits) ==
    [b \in 1..nbytes |-> IF (b - 1) * 8 < bits THEN OrBits(msg, b - 1, 0) ELSE 0]

\* pqppvss ibe::bitcodec.
scalar_bytes_to_encryption_input(bytes) == BytesToMsg(bytes)

decryption_output_to_scalar_bytes(msg) ==
    MsgToBytes(msg, PvssBlockBytes, PvssDecodeBits)

\* private_polling ibe_encryption::bitcodec.
polling_scalar_bytes_to_encryption_input(bytes) == BytesToMsg(bytes)

polling_decryption_output_to_scalar_bytes(msg) ==
    MsgToBytes(msg, PollBlockBytes, PollDecodeBits)

\* The assert at the head of both directions.
CodecAssertFails(crate) ==
    IF crate = "pqppvss" THEN N0 < PvssMinN0 ELSE N0 < PollMinN0

CodecInit ==
    /\ \E crate \in {"pqppvss", "private_polling"} :
         \E bytes \in [1..(IF crate = "pqppvss" THEN PvssBlockBytes
                           ELSE PollBlockBytes) -> ByteSamples] :
           codec = [pc |-> "init", crate |-> crate, bytes |-> bytes,
                    msg |-> <<>>, out |-> <<>>]
    /\ sss = Idle /\ pvss = Idle /\ ldt = Idle /\ pz = Idle /\ por = Idle
    /\ vote = Idle /\ interp = Idle /\ ped = Idle /\ runs = Idle

\* scalar_bytes_to_encryption_input of the block.
CodecEncode ==
    /\ codec.pc = "init"
    /\ IF CodecAssertFails(codec.crate)
       THEN codec' = [codec EXCEPT !.pc = "panic"]
       ELSE codec' = [codec EXCEPT
                        !.pc = "encoded",
                        !.msg = IF codec.crate = "pqppvss"
                                THEN scalar_bytes_to_encryption_input(codec.bytes)
                                ELSE polling_scalar_bytes_to_encryption_input(
                                         codec.bytes)]
    /\ UNCHANGED <<sss, pvss, ldt, pz, por, vote, interp, ped, runs>>

\* decryption_output_to_scalar_bytes of the encoded message.
CodecDecode ==
    /\ codec.pc = "encoded"
    /\ IF CodecAssertFails(codec.crate)
       THEN codec' = [codec EXCEPT !.pc = "panic"]
       ELSE codec' = [codec EXCEPT
                        !.pc = "decoded",
                        !.out = IF codec.crate = "pqppvss"
                                THEN decryption_output_to_scalar_bytes(codec.msg)
                                ELSE polling_decryption_output_to_scalar_bytes(
                                         codec.msg)]
    /\ UNCHANGED <<sss, pvss, ldt, pz, por, vote, interp, ped, runs>>

CodecNext == CodecEncode \/ CodecDecode

SpecCodec == CodecInit /\ [][CodecNext]_vars

\* Bit k of a block, little-endian within each byte.
BlockBit(bytes, k) == (bytes[(k \div 8) + 1] \div (2 ^ (k % 8))) % 2

\* C30: the block codec round-trips: decryption_output_to_scalar_bytes(
\* scalar_bytes_to_encryption_input(b)) = b for every block b of both crates,
\* every produced message coefficient is 0 or 1 with bit k of the block
\* (little-endian within each byte) at coefficient k, and all coefficients
\* past the block's bits are 0.
C30_BlockCodecRoundTrip ==
    /\ codec.pc # "panic"
    /\ (codec.pc = "encoded" \/ codec.pc = "decoded")
       => /\ Len(codec.msg) = N0
          /\ \A k \in 0..(N0 - 1) :
                /\ codec.msg[k + 1] \in {0, 1}
                /\ k < 8 * Len(codec.bytes)
                   => codec.msg[k + 1] = BlockBit(codec.bytes, k)
                /\ k >= 8 * Len(codec.bytes) => codec.msg[k + 1] = 0
    /\ codec.pc = "decoded" => codec.out = codec.bytes

C30_WitnessPvss ==
    /\ codec.pc = "decoded" /\ codec.crate = "pqppvss"
    /\ codec.bytes = <<37, 128, 165>> /\ codec.out = <<37, 128, 165>>
    /\ codec.msg[1] = 1 /\ codec.msg[2] = 0 /\ codec.msg[16] = 1

C30_WitnessPolling ==
    /\ codec.pc = "decoded" /\ codec.crate = "private_polling"
    /\ codec.bytes = <<165>> /\ codec.out = <<165>>

Init == SssInit \/ LdtInit \/ PvssInit \/ PzInit \/ PorInit
        \/ VoteInit \/ InterpInit \/ PedInit \/ FreshInit \/ CodecInit

Next == SssNext \/ LdtNext \/ PvssNext \/ PzNext \/ PorNext
        \/ VoteNext \/ InterpNext \/ PedNext \/ FreshNext \/ CodecNext

Spec == Init /\ [][Next]_vars
====
